---------------------------- MODULE Spec2Model ----------------------------
(***************************************************************************)
(* Model of the excel_parser crate: the reader (parser.rs), the writer     *)
(* (writer.rs) and the MessagePack converter (messagepack_converter.rs).   *)
(*                                                                         *)
(* Three specifications share the module:                                  *)
(*   SpecRead   read_headers / read_data over a source workbook            *)
(*   SpecCodec  to_bytes / from_bytes over a canonical workbook            *)
(*   SpecWrite  write_data / write_multiple_sheets onto a target file      *)
(***************************************************************************)
EXTENDS Integers, Sequences, FiniteSets, TLC

VARIABLES
    book,      \* reader: the workbook file behind ExcelParser.file_path
    hdrRes,    \* reader: outcome of the last read_headers call
    dataRes,   \* reader: outcome of the last read_data call
    wb,        \* codec: the ExcelData value handed to to_bytes
    bytes,     \* codec: the buffer to_bytes produced
    decoded,   \* codec: outcome of from_bytes on that buffer
    file,      \* writer: content of the file at ExcelWriter.file_path
    call       \* writer: record of the last write_data / write_multiple_sheets

vars == <<book, hdrRes, dataRes, wb, bytes, decoded, file, call>>

readVars  == <<book, hdrRes, dataRes>>
codecVars == <<wb, bytes, decoded>>
writeVars == <<file, call>>

(***************************************************************************)
(* Bounds of the model.                                                    *)
(***************************************************************************)
MaxSheets == 2      \* sheets per source workbook / specs per write call
MaxRows   == 2      \* data rows per sheet
MaxCols   == 5      \* cells per row

\* the sequence f itself, held as a tuple
Tuple(f) == f \o << >>

Min(a, b) == IF a <= b THEN a ELSE b
Max(a, b) == IF a >= b THEN a ELSE b

(***************************************************************************)
(* Decimal rendering of an integer, as Rust's Display for i64 does it.     *)
(***************************************************************************)
Digit(d) == <<"0", "1", "2", "3", "4", "5", "6", "7", "8", "9">>[d + 1]

RECURSIVE NatToStr(_)
NatToStr(n) == IF n < 10 THEN Digit(n) ELSE NatToStr(n \div 10) \o Digit(n % 10)

IntToStr(n) == IF n < 0 THEN "-" \o NatToStr(-n) ELSE NatToStr(n)

(***************************************************************************)
(* calamine::Data, the cell type of a worksheet range.  The variants the   *)
(* model draws from: Int, String, Bool, Empty.                             *)
(***************************************************************************)
DInt(n)  == [t |-> "Int",    i |-> n, s |-> "", b |-> FALSE]
DStr(x)  == [t |-> "String", i |-> 0, s |-> x,  b |-> FALSE]
DBool(x) == [t |-> "Bool",   i |-> 0, s |-> "", b |-> x]
DEmpty   == [t |-> "Empty",  i |-> 0, s |-> "", b |-> FALSE]

\* cell.to_string(): Display of calamine::Data
CellToString(cell) ==
    CASE cell.t = "Int"    -> IntToStr(cell.i)
      [] cell.t = "String" -> cell.s
      [] cell.t = "Bool"   -> IF cell.b THEN "true" ELSE "false"
      [] cell.t = "Empty"  -> ""

(***************************************************************************)
(* Source workbooks.  A sheet is its name, whether worksheet_range can     *)
(* read it, and its rows as the range iterator yields them (a sequence of  *)
(* cell slices; read_sheet makes no assumption on their lengths, and the   *)
(* model draws rows shorter and longer than the first one).                *)
(***************************************************************************)
\* first rows and data rows are drawn from two palettes; sheet 1 starts with
\* the rows of the crate's example.xlsx (ID, Name, Age / 1, AliceAA, 35)
HeaderPalette ==
    << DStr("ID"), DStr("Name"), DStr("Age"), DInt(2024), DEmpty, DStr("ID"),
       DBool(TRUE) >>

DataPalette ==
    << DInt(1), DStr("AliceAA"), DInt(35), DBool(FALSE), DEmpty, DInt(-7),
       DStr("Bob"), DInt(120), DStr("Age"), DBool(TRUE), DStr("") >>

DataAt(i, r, c) ==
    IF r = 1
    THEN HeaderPalette[((2 * (i - 1) + c - 1) % Len(HeaderPalette)) + 1]
    ELSE DataPalette[((3 * (i - 1) + 5 * (r - 2) + c - 1) % Len(DataPalette)) + 1]

SheetName(i) == "Sheet" \o IntToStr(i)

\* rows of sheet i: none when z = i, else a first row and d more rows whose
\* lengths are spread over 0..MaxCols from the parameters h and l
RowLen(i, k, h, l) == IF k = 1 THEN (h + i - 1) % (MaxCols + 1)
                               ELSE (l + 2 * (k - 2) + i - 1) % (MaxCols + 1)

GridOf(i, h, d, l, z) ==
    IF z = i THEN << >>
    ELSE [k \in 1..(d + 1) |->
            [c \in 1..RowLen(i, k, h, l) |-> DataAt(i, k, c)]]

BookOf(n, h, d, l, z, bad, openable) ==
    [ openable |-> openable,
      sheets   |-> [i \in 1..n |->
                      [ name     |-> SheetName(i),
                        readable |-> (i # bad),
                        grid     |-> GridOf(i, h, d, l, z) ]] ]

Books ==
    { BookOf(n, h, d, l, z, bad, o) :
        n \in 0..MaxSheets, h \in 0..MaxCols, d \in 0..MaxRows,
        l \in 0..MaxCols, z \in 0..MaxSheets, bad \in 0..MaxSheets,
        o \in BOOLEAN }

(***************************************************************************)
(* Results: Result<T, Box<dyn Error>>                                      *)
(***************************************************************************)
NoCall     == [st |-> "none", err |-> "", val |-> << >>]
Ok(v)      == [st |-> "ok",   err |-> "", val |-> v]
Err(e)     == [st |-> "err",  err |-> e,  val |-> << >>]

\* range.width(): the column span of the range
Width(grid) ==
    IF grid = << >> THEN 0
    ELSE LET lens == {Len(grid[k]) : k \in 1..Len(grid)}
         IN  CHOOSE w \in lens : \A x \in lens : x <= w

\* workbook.worksheet_range(name): the first sheet of that name
WorksheetRange(b, name) ==
    LET idx == {i \in 1..Len(b.sheets) : b.sheets[i].name = name}
    IN  IF idx = {} THEN Err("sheet not found")
        ELSE LET i == CHOOSE j \in idx : \A m \in idx : j <= m
             IN  IF b.sheets[i].readable THEN Ok(b.sheets[i].grid)
                 ELSE Err("range")

\* row.iter().map(|cell| cell.to_string()).collect(), or default when no row
FirstRowStrings(grid) ==
    IF grid = << >> THEN << >>
    ELSE [c \in 1..Len(grid[1]) |-> CellToString(grid[1][c])]

(***************************************************************************)
(* parser.rs: ExcelParser                                                  *)
(***************************************************************************)
\* `n as u32` for a usize n.  Every count and index the model holds is below
\* 2^31 (the range of TLC's integers), where the cast changes nothing.
AsU32(n) == n

\* row_index as u32 + 1, for the enumerate() index idx (0-based)
RowIndexZeroBased(idx) == AsU32(idx)
RowIndex(idx) == AsU32(idx) + 1

\* the filter_map closure over row.iter().enumerate(), from col_index col on:
\* a CellData for every position that headers.get(col_index) answers
RECURSIVE RowCellsFirstHeader(_, _, _)
RowCellsFirstHeader(row, headers, col) ==
    IF col >= Len(row) THEN << >>
    ELSE LET rest == RowCellsFirstHeader(row, headers, col + 1)
         IN  IF col < Len(headers)
             THEN << [column_name |-> headers[1],
                      value       |-> CellToString(row[col + 1])] >> \o rest
             ELSE rest

RECURSIVE RowCellsPadded(_, _, _)
RowCellsPadded(row, headers, col) ==
    IF col >= Len(headers) THEN << >>
    ELSE << [column_name |-> headers[col + 1],
             value       |-> IF col < Len(row) THEN CellToString(row[col + 1])
                                               ELSE ""] >>
         \o RowCellsPadded(row, headers, col + 1)

RECURSIVE RowCells(_, _, _)
RowCells(row, headers, col) ==
    IF col >= Len(row) THEN << >>
    ELSE LET rest == RowCells(row, headers, col + 1)
         IN  IF col < Len(headers)
             THEN << [column_name |-> headers[col + 1],
                      value       |-> CellToString(row[col + 1])] >> \o rest
             ELSE rest

\* read_sheet
ReadSheet(b, sheet_name) ==
    LET range == WorksheetRange(b, sheet_name)
    IN  IF range.st = "err" THEN range
        ELSE
          LET grid    == range.val
              headers == FirstRowStrings(grid)
              nData   == IF grid = << >> THEN 0 ELSE Len(grid) - 1
              rows    == [k \in 1..nData |->
                            [ cells     |-> RowCells(grid[k + 1], headers, 0),
                              row_index |-> RowIndex(k - 1) ]]
          IN  Ok([ name          |-> sheet_name,
                   column_names  |-> headers,
                   rows          |-> rows,
                   total_rows    |-> AsU32(Len(rows)),
                   total_columns |-> AsU32(Width(grid)) ])

\* the for loop of read_data from the i-th sheet name on; sheets holds the
\* SheetData pushed so far
RECURSIVE ReadSheetsSkipping(_, _, _)
ReadSheetsSkipping(b, i, sheets) ==
    IF i > Len(b.sheets) THEN Ok([sheets |-> sheets])
    ELSE LET sheet_data == ReadSheet(b, b.sheets[i].name)
         IN  IF sheet_data.st = "err"
             THEN ReadSheetsSkipping(b, i + 1, sheets)
             ELSE ReadSheetsSkipping(b, i + 1, Append(sheets, sheet_data.val))

RECURSIVE ReadSheets(_, _, _)
ReadSheets(b, i, sheets) ==
    IF i > Len(b.sheets) THEN Ok([sheets |-> sheets])
    ELSE LET sheet_data == ReadSheet(b, b.sheets[i].name)
         IN  IF sheet_data.st = "err" THEN sheet_data
             ELSE ReadSheets(b, i + 1, Append(sheets, sheet_data.val))

\* read_data
ReadData(b) ==
    IF ~b.openable THEN Err("open")
    ELSE ReadSheets(b, 1, << >>)

\* read_headers
ReadHeadersLastSheet(b) ==
    IF ~b.openable THEN Err("open")
    ELSE IF b.sheets = << >> THEN Err("No worksheets found")
    ELSE LET range == WorksheetRange(b, b.sheets[Len(b.sheets)].name)
         IN  IF range.st = "err" THEN range
             ELSE Ok(FirstRowStrings(range.val))

ReadHeaders(b) ==
    IF ~b.openable THEN Err("open")
    ELSE IF b.sheets = << >> THEN Err("No worksheets found")
    ELSE LET range == WorksheetRange(b, b.sheets[1].name)
         IN  IF range.st = "err" THEN range
             ELSE Ok(FirstRowStrings(range.val))

(***************************************************************************)
(* SpecRead                                                                *)
(***************************************************************************)
IdleCodec == wb = << >> /\ bytes = NoCall /\ decoded = NoCall
IdleWrite == file = << >> /\ call = << >>
IdleRead  == book = << >> /\ hdrRes = NoCall /\ dataRes = NoCall

InitRead ==
    /\ book \in Books
    /\ hdrRes = NoCall
    /\ dataRes = NoCall
    /\ IdleCodec
    /\ IdleWrite

DoReadHeaders ==
    /\ hdrRes' = ReadHeaders(book)
    /\ UNCHANGED <<book, dataRes, codecVars, writeVars>>

DoReadData ==
    /\ dataRes' = ReadData(book)
    /\ UNCHANGED <<book, hdrRes, codecVars, writeVars>>

NextRead == DoReadHeaders \/ DoReadData

SpecRead == InitRead /\ [][NextRead]_vars

(***************************************************************************)
(* Claims about the reader, checked under SpecRead.                        *)
(***************************************************************************)
ReadOk      == dataRes.st = "ok"
OutSheets   == dataRes.val.sheets
SrcGrid(s)  == book.sheets[s].grid

\* C2: in every sheet read_data returns, the i-th cell of every data row
\* carries the sheet's i-th column name, which is the string form of the i-th
\* cell of the sheet's first row, and the string form of the source cell at
\* column i of that data row.
C2_PositionalCells ==
    ReadOk =>
      \A s \in 1..Len(OutSheets) :
        \A k \in 1..Len(OutSheets[s].rows) :
          \A i \in 1..Len(OutSheets[s].rows[k].cells) :
            LET sh   == OutSheets[s]
                cell == sh.rows[k].cells[i]
                g    == SrcGrid(s)
            IN  /\ k + 1 <= Len(g)
                /\ i <= Len(sh.column_names)
                /\ i <= Len(g[1])
                /\ i <= Len(g[k + 1])
                /\ cell.column_name = sh.column_names[i]
                /\ sh.column_names[i] = CellToString(g[1][i])
                /\ cell.value = CellToString(g[k + 1][i])

\* the key-value mapping of example.xlsx: ID -> 1, Name -> AliceAA, Age -> 35
C2_Witness ==
    /\ ReadOk
    /\ Len(OutSheets) >= 1
    /\ OutSheets[1].column_names = <<"ID", "Name", "Age">>
    /\ Len(OutSheets[1].rows) >= 1
    /\ OutSheets[1].rows[1].cells =
         << [column_name |-> "ID",   value |-> "1"],
            [column_name |-> "Name", value |-> "AliceAA"],
            [column_name |-> "Age",  value |-> "35"] >>

AllReadable ==
    /\ book.openable
    /\ \A i \in 1..Len(book.sheets) : book.sheets[i].readable

\* C6: read_data returns one Sheet per source sheet, in source order and
\* under the source names, when the workbook opens and every sheet can be
\* read; otherwise it returns an error and no workbook at all.
C6_AllOrNothing ==
    dataRes.st # "none" =>
      /\ AllReadable =>
           /\ dataRes.st = "ok"
           /\ Len(OutSheets) = Len(book.sheets)
           /\ \A i \in 1..Len(book.sheets) :
                OutSheets[i].name = book.sheets[i].name
      /\ ~AllReadable =>
           /\ dataRes.st = "err"
           /\ dataRes.val = << >>

\* the second sheet fails after the first one was read
C6_Witness ==
    /\ dataRes.st = "err"
    /\ book.openable
    /\ Len(book.sheets) = 2
    /\ book.sheets[1].readable
    /\ book.sheets[1].grid # << >>
    /\ ~book.sheets[2].readable

\* C7: read_headers fails with the no-worksheets error on a workbook without
\* sheets, returns the empty sequence when the first sheet has no rows, and
\* otherwise the string form of the first row of the first sheet, whatever
\* the other sheets are; that is column_names of the first Sheet of read_data.
C7_ReadHeadersCases ==
    hdrRes.st # "none" =>
      /\ (book.openable /\ book.sheets = << >>) =>
           hdrRes = Err("No worksheets found")
      /\ (book.openable /\ book.sheets # << >> /\ book.sheets[1].readable) =>
           LET g == book.sheets[1].grid
           IN  /\ hdrRes.st = "ok"
               /\ g = << >> => hdrRes.val = << >>
               /\ g # << >> =>
                    /\ Len(hdrRes.val) = Len(g[1])
                    /\ \A c \in 1..Len(g[1]) :
                         hdrRes.val[c] = CellToString(g[1][c])
      /\ (hdrRes.st = "ok" /\ ReadOk) =>
           hdrRes.val = OutSheets[1].column_names

\* both calls succeeded on a workbook whose second sheet has another first row
C7_Witness ==
    /\ hdrRes.st = "ok"
    /\ ReadOk
    /\ Len(book.sheets) = 2
    /\ Len(hdrRes.val) >= 2
    /\ OutSheets[2].column_names # hdrRes.val
    /\ OutSheets[2].column_names # << >>

\* C8: in every sheet of read_data total_rows is the number of Rows, the
\* first source row is not among them, the k-th Row has row_index k, and a
\* sheet without source rows has no column names, no rows and total_rows 0.
C8_RowIndexing ==
    ReadOk =>
      \A s \in 1..Len(OutSheets) :
        LET sh == OutSheets[s]
            g  == SrcGrid(s)
        IN  /\ sh.total_rows = Len(sh.rows)
            /\ g # << >> => Len(sh.rows) = Len(g) - 1
            /\ \A k \in 1..Len(sh.rows) : sh.rows[k].row_index = k
            /\ g = << >> =>
                 /\ sh.column_names = << >>
                 /\ sh.rows = << >>
                 /\ sh.total_rows = 0

\* one sheet with two data rows beside one sheet without any source row
C8_Witness ==
    /\ ReadOk
    /\ \E s \in 1..Len(OutSheets) :
         /\ Len(OutSheets[s].rows) = 2
         /\ OutSheets[s].rows[2].row_index = 2
    /\ \E s \in 1..Len(OutSheets) :
         /\ SrcGrid(s) = << >>
         /\ OutSheets[s].total_rows = 0

(***************************************************************************)
(* messagepack_converter.rs: MessagePackConverter::to_bytes / from_bytes.  *)
(* rmp_serde::to_vec writes a struct as the array of its fields in         *)
(* declaration order, a Vec as an array, a String as a str and a u32 as    *)
(* the shortest unsigned integer; rmp_serde::from_slice reads them back.   *)
(* Strings are sequences of bytes; the model draws ASCII ones.             *)
(***************************************************************************)
\* the big-endian bytes of v, n of them
RECURSIVE BigEndian(_, _)
BigEndian(v, n) ==
    IF n = 0 THEN << >> ELSE BigEndian(v \div 256, n - 1) \o << v % 256 >>

\* rmp::encode::write_uint
EncUIntOffByOne(v) ==
    IF v <= 128 THEN << v >>
    ELSE IF v < 256 THEN << 204 >> \o BigEndian(v, 1)
    ELSE IF v < 65536 THEN << 205 >> \o BigEndian(v, 2)
    ELSE << 206 >> \o BigEndian(v, 4)

EncUInt(v) ==
    IF v < 128 THEN << v >>
    ELSE IF v < 256 THEN << 204 >> \o BigEndian(v, 1)
    ELSE IF v < 65536 THEN << 205 >> \o BigEndian(v, 2)
    ELSE << 206 >> \o BigEndian(v, 4)

\* rmp::encode::write_array_len
EncArrayLen(n) ==
    IF n < 16 THEN << 144 + n >>
    ELSE IF n < 65536 THEN << 220 >> \o BigEndian(n, 2)
    ELSE << 221 >> \o BigEndian(n, 4)

\* rmp::encode::write_str
EncStr(str) ==
    LET n == Len(str)
    IN  (IF n < 32 THEN << 160 + n >>
         ELSE IF n < 256 THEN << 217 >> \o BigEndian(n, 1)
         ELSE IF n < 65536 THEN << 218 >> \o BigEndian(n, 2)
         ELSE << 219 >> \o BigEndian(n, 4)) \o str

RECURSIVE EncStrings(_)
EncStrings(strs) ==
    IF strs = << >> THEN << >> ELSE EncStr(Head(strs)) \o EncStrings(Tail(strs))

\* CellData { column_name, value }
EncCell(cell) == EncArrayLen(2) \o EncStr(cell.column_name) \o EncStr(cell.value)

RECURSIVE EncCells(_)
EncCells(cells) ==
    IF cells = << >> THEN << >> ELSE EncCell(Head(cells)) \o EncCells(Tail(cells))

\* RowData { cells, row_index }
EncRow(row) ==
    EncArrayLen(2) \o EncArrayLen(Len(row.cells)) \o EncCells(row.cells)
                   \o EncUInt(row.row_index)

RECURSIVE EncRows(_)
EncRows(rows) ==
    IF rows = << >> THEN << >> ELSE EncRow(Head(rows)) \o EncRows(Tail(rows))

\* SheetData { name, column_names, rows, total_rows, total_columns }
EncSheet(sh) ==
    EncArrayLen(5)
      \o EncStr(sh.name)
      \o EncArrayLen(Len(sh.column_names)) \o EncStrings(sh.column_names)
      \o EncArrayLen(Len(sh.rows)) \o EncRows(sh.rows)
      \o EncUInt(sh.total_rows)
      \o EncUInt(sh.total_columns)

RECURSIVE EncSheets(_)
EncSheets(sheets) ==
    IF sheets = << >> THEN << >>
    ELSE EncSheet(Head(sheets)) \o EncSheets(Tail(sheets))

\* to_bytes: ExcelData { sheets }
ToBytes(excel_data) ==
    Ok(EncArrayLen(1) \o EncArrayLen(Len(excel_data.sheets))
                      \o EncSheets(excel_data.sheets))

(***************************************************************************)
(* Decoding.  A reader step takes the buffer b and the 1-based position p  *)
(* of the next byte and answers [ok, val, pos].                            *)
(***************************************************************************)
DFail      == [ok |-> FALSE, val |-> << >>, pos |-> 0]
DOk(v, p)  == [ok |-> TRUE,  val |-> v,     pos |-> p]

Has(b, p, n) == p + n - 1 <= Len(b)

\* the big-endian value of the n bytes of b from p
RECURSIVE FromBigEndian(_, _, _)
FromBigEndian(b, p, n) ==
    IF n = 0 THEN 0
    ELSE FromBigEndian(b, p, n - 1) * 256 + b[p + n - 1]

\* an unsigned integer for a u32 field
DecUInt(b, p) ==
    IF ~Has(b, p, 1) THEN DFail
    ELSE LET m == b[p]
         IN  IF m < 128 THEN DOk(m, p + 1)
             ELSE IF m = 204 /\ Has(b, p + 1, 1)
                  THEN DOk(FromBigEndian(b, p + 1, 1), p + 2)
             ELSE IF m = 205 /\ Has(b, p + 1, 2)
                  THEN DOk(FromBigEndian(b, p + 1, 2), p + 3)
             ELSE IF m = 206 /\ Has(b, p + 1, 4)
                  THEN DOk(FromBigEndian(b, p + 1, 4), p + 5)
             ELSE DFail

\* the length of an array
DecArrayLen(b, p) ==
    IF ~Has(b, p, 1) THEN DFail
    ELSE LET m == b[p]
         IN  IF m >= 144 /\ m < 160 THEN DOk(m - 144, p + 1)
             ELSE IF m = 220 /\ Has(b, p + 1, 2)
                  THEN DOk(FromBigEndian(b, p + 1, 2), p + 3)
             ELSE IF m = 221 /\ Has(b, p + 1, 4)
                  THEN DOk(FromBigEndian(b, p + 1, 4), p + 5)
             ELSE DFail

\* a str for a String field; its bytes must be UTF-8 (here: ASCII)
DecStr(b, p) ==
    IF ~Has(b, p, 1) THEN DFail
    ELSE LET m   == b[p]
             hdr == IF m >= 160 /\ m < 192 THEN DOk(m - 160, p + 1)
                    ELSE IF m = 217 /\ Has(b, p + 1, 1)
                         THEN DOk(FromBigEndian(b, p + 1, 1), p + 2)
                    ELSE IF m = 218 /\ Has(b, p + 1, 2)
                         THEN DOk(FromBigEndian(b, p + 1, 2), p + 3)
                    ELSE IF m = 219 /\ Has(b, p + 1, 4)
                         THEN DOk(FromBigEndian(b, p + 1, 4), p + 5)
                    ELSE DFail
         IN  IF ~hdr.ok \/ ~Has(b, hdr.pos, hdr.val) THEN DFail
             ELSE LET str == SubSeq(b, hdr.pos, hdr.pos + hdr.val - 1)
                  IN  IF \A i \in 1..Len(str) : str[i] < 128
                      THEN DOk(str, hdr.pos + hdr.val)
                      ELSE DFail

\* The shapes serde derives for the model's types: a u32, a String, a Vec of
\* a shape, and a struct by name.
TU32        == [k |-> "u32", of |-> ""]
TString     == [k |-> "str", of |-> ""]
TVec(name)  == [k |-> "vec", of |-> name]
TStruct(nm) == [k |-> "struct", of |-> nm]

\* the fields of each struct of parser.rs, in declaration order
Fields(name) ==
    CASE name = "CellData"  -> << TString, TString >>
      [] name = "RowData"   -> << TVec("CellData"), TU32 >>
      [] name = "SheetData" -> << TString, TVec("String"), TVec("RowData"),
                                  TU32, TU32 >>
      [] name = "ExcelData" -> << TVec("SheetData") >>

ElemShape(name) == IF name = "String" THEN TString ELSE TStruct(name)

\* the struct value of its decoded fields
Build(name, f) ==
    CASE name = "CellData"  -> [column_name |-> f[1], value |-> f[2]]
      [] name = "RowData"   -> [cells |-> f[1], row_index |-> f[2]]
      [] name = "SheetData" -> [ name          |-> f[1],
                                 column_names  |-> f[2],
                                 rows          |-> f[3],
                                 total_rows    |-> f[4],
                                 total_columns |-> f[5] ]
      [] name = "ExcelData" -> [sheets |-> f[1]]

RECURSIVE Dec(_, _, _), DecFields(_, _, _, _), DecElems(_, _, _, _, _)

\* a value of shape ty at p
Dec(ty, b, p) ==
    CASE ty.k = "u32" -> DecUInt(b, p)
      [] ty.k = "str" -> DecStr(b, p)
      [] ty.k = "vec" ->
           LET n == DecArrayLen(b, p)
           IN  IF ~n.ok THEN DFail
               ELSE DecElems(ElemShape(ty.of), b, n.pos, n.val, << >>)
      [] ty.k = "struct" ->
           LET n == DecArrayLen(b, p)
           IN  IF ~n.ok \/ n.val # Len(Fields(ty.of)) THEN DFail
               ELSE LET f == DecFields(Fields(ty.of), b, n.pos, << >>)
                    IN  IF ~f.ok THEN DFail
                        ELSE DOk(Build(ty.of, f.val), f.pos)

\* the fields of shapes tys from p on, after those in acc
DecFields(tys, b, p, acc) ==
    IF tys = << >> THEN DOk(acc, p)
    ELSE LET x == Dec(Head(tys), b, p)
         IN  IF ~x.ok THEN DFail
             ELSE DecFields(Tail(tys), b, x.pos, Append(acc, x.val))

\* n more elements of shape ty from p on, after those in acc
DecElems(ty, b, p, n, acc) ==
    IF n = 0 THEN DOk(acc, p)
    ELSE LET x == Dec(ty, b, p)
         IN  IF ~x.ok THEN DFail
             ELSE DecElems(ty, b, x.pos, n - 1, Append(acc, x.val))

\* from_bytes: an ExcelData at the start of the buffer
FromBytes(b) ==
    LET r == Dec(TStruct("ExcelData"), b, 1)
    IN  IF r.ok THEN Ok(r.val) ELSE Err("decode")

(***************************************************************************)
(* SpecCodec: any ExcelData value, not only those read_data builds.        *)
(* Numbers and strings come from palettes that reach every encoding width  *)
(* (fixint, u8, u16, u32; fixstr, str8; fixarray, array16).                *)
(***************************************************************************)
NumPalette == << 0, 1, 127, 128, 255, 256, 65535, 65536, 2147483647 >>

StrPalette ==
    << << 73, 68 >>,                         \* "ID"
       << >>,                                \* ""
       << 78, 97, 109, 101 >>,               \* "Name"
       [i \in 1..31 |-> 97],                 \* 31 bytes: the longest fixstr
       << 49 >>,                             \* "1"
       [i \in 1..32 |-> 98],                 \* 32 bytes: the shortest str8
       << 65, 108, 105, 99, 101, 65, 65 >>,  \* "AliceAA"
       << 51, 53 >> >>                       \* "35"

NumAt(x) == NumPalette[(x % Len(NumPalette)) + 1]
StrAt(x) == StrPalette[(x % Len(StrPalette)) + 1]

\* variant 1 carries 16 more column names than cells, for the array16 header
ColumnCount(c, v) == IF v = 1 THEN c + 16 ELSE c

WorkbookOf(n, r, c, v) ==
    [ sheets |-> [i \in 1..n |->
        [ name          |-> StrAt(v + i),
          column_names  |-> [j \in 1..ColumnCount(c, v) |-> StrAt(v + j)],
          rows          |-> [k \in 1..r |->
                               [ cells |-> [j \in 1..((c + k - 1) % (MaxCols + 1)) |->
                                              [ column_name |-> StrAt(v + j),
                                                value       |-> StrAt(v + i + j + k) ]],
                                 row_index |-> NumAt(v + k) ]],
          total_rows    |-> NumAt(v + i),
          total_columns |-> NumAt(v + i + 3) ]] ]

Workbooks ==
    { WorkbookOf(n, r, c, v) :
        n \in 0..MaxSheets, r \in 0..MaxRows, c \in 0..MaxCols,
        v \in 1..Len(NumPalette) }

InitCodec ==
    /\ wb \in Workbooks
    /\ bytes = NoCall
    /\ decoded = NoCall
    /\ IdleRead
    /\ IdleWrite

DoToBytes ==
    /\ bytes' = ToBytes(wb)
    /\ UNCHANGED <<wb, decoded, readVars, writeVars>>

DoFromBytes ==
    /\ bytes.st = "ok"
    /\ decoded' = FromBytes(bytes.val)
    /\ UNCHANGED <<wb, bytes, readVars, writeVars>>

NextCodec == DoToBytes \/ DoFromBytes

SpecCodec == InitCodec /\ [][NextCodec]_vars

\* C1: from_bytes(to_bytes(W)) succeeds and yields a workbook equal to W in
\* every field: sheets and their order, names, column names, rows with their
\* order, row_index and cells, total_rows and total_columns.
C1_RoundTrip ==
    decoded.st # "none" =>
      /\ decoded.st = "ok"
      /\ decoded.val = wb

\* a decoded two-sheet workbook with rows, a 32-byte string and a count that
\* needs four bytes
C1_Witness ==
    /\ decoded.st = "ok"
    /\ Len(wb.sheets) = 2
    /\ Len(wb.sheets[1].rows) = 2
    /\ Len(wb.sheets[1].rows[1].cells) >= 2
    /\ \E j \in 1..Len(wb.sheets[1].column_names) :
         Len(wb.sheets[1].column_names[j]) = 32
    /\ \E i \in 1..2 : wb.sheets[i].total_columns >= 65536
    /\ Len(bytes.val) > 0

(***************************************************************************)
(* writer.rs: ExcelWriter over rust_xlsxwriter.                            *)
(*                                                                         *)
(* A worksheet is its name and the writes applied to it, the header loop's *)
(* in order and the data loop's row by row; a later write to a position    *)
(* replaces an earlier one.  Sheet names are sequences of characters.      *)
(***************************************************************************)
U16     == 65536      \* `as u16` keeps the low 16 bits
COL_MAX == 16384      \* columns of a worksheet
ROW_MAX == 1048576    \* rows of a worksheet

\* col as u16
AsU8(n)  == n % 256
AsU16(n) == n % U16

None(d)  == [some |-> FALSE, v |-> d]
Some(x)  == [some |-> TRUE,  v |-> x]

\* Format::new()
NewFormat == [bold |-> FALSE, align |-> "General", bg |-> 0, num_format |-> ""]

\* Format::new().set_bold().set_align(Center).set_background_color(0xD3D3D3)
HeaderFormat ==
    [bold |-> TRUE, align |-> "Center", bg |-> 13882323, num_format |-> ""]

\* create_format_from_string
CreateFormatIgnoringCustom(format_str) ==
    Ok([NewFormat EXCEPT !.num_format =
          CASE format_str = "@"                   -> "@"
            [] format_str = "#,##0"               -> "#,##0"
            [] format_str = "#,##0.00"            -> "#,##0.00"
            [] format_str = "yyyy-MM-dd"          -> "yyyy-mm-dd"
            [] format_str = "yyyy-MM-dd HH:mm:ss" -> "yyyy-mm-dd hh:mm:ss"
            [] OTHER                              -> ""])

CreateFormatFromString(format_str) ==
    Ok([NewFormat EXCEPT !.num_format =
          CASE format_str = "@"                   -> "@"
            [] format_str = "#,##0"               -> "#,##0"
            [] format_str = "#,##0.00"            -> "#,##0.00"
            [] format_str = "yyyy-MM-dd"          -> "yyyy-mm-dd"
            [] format_str = "yyyy-MM-dd HH:mm:ss" -> "yyyy-mm-dd hh:mm:ss"
            [] OTHER                              -> format_str])

\* Worksheet::set_name: the name rules of the workbook format
InvalidNameChars == {"*", "?", ":", "[", "]", "\\", "/"}

ValidSheetName(name) ==
    /\ name # << >>
    /\ Len(name) <= 31
    /\ \A i \in 1..Len(name) : name[i] \notin InvalidNameChars
    /\ name[1] # "'"
    /\ name[Len(name)] # "'"

\* One call on the worksheet: a cell write, a column width, or nothing (a
\* header without width).
WriteStep(row, col, value, fmt) ==
    [kind |-> "write", row |-> row, col |-> col, value |-> value,
     fmt |-> fmt, width |-> 0]
WidthStep(col, width) ==
    [kind |-> "width", row |-> 0, col |-> col, value |-> "",
     fmt |-> None(NewFormat), width |-> width]
SkipStep ==
    [kind |-> "skip", row |-> 0, col |-> 0, value |-> "",
     fmt |-> None(NewFormat), width |-> 0]

\* Worksheet::write / write_with_format / set_column_width answer an error
\* for a row or column outside the worksheet
StepOk(step) ==
    CASE step.kind = "write" -> step.row < ROW_MAX /\ step.col < COL_MAX
      [] step.kind = "width" -> step.col < COL_MAX
      [] step.kind = "skip"  -> TRUE

\* the index of the first step that fails, 0 when none does: `?` returns there
FirstFail(steps) ==
    IF \A k \in 1..Len(steps) : StepOk(steps[k]) THEN 0
    ELSE CHOOSE k \in 1..Len(steps) :
           /\ ~StepOk(steps[k])
           /\ \A j \in 1..(k - 1) : StepOk(steps[j])

\* the steps carried out before the first failure
Executed(steps) ==
    IF FirstFail(steps) = 0 THEN steps
    ELSE SubSeq(steps, 1, FirstFail(steps) - 1)

IsCall(step) == step.kind # "skip"

\* "Write headers": for (col, header) in config.headers.iter().enumerate()
HeaderSteps(config) ==
    Tuple([k \in 1..(2 * Len(config.headers)) |->
       IF k % 2 = 1
       THEN WriteStep(0, AsU16((k - 1) \div 2),
                      config.headers[(k + 1) \div 2].name, Some(HeaderFormat))
       ELSE IF config.headers[k \div 2].width.some
            THEN WidthStep(AsU16((k - 2) \div 2), config.headers[k \div 2].width.v)
            ELSE SkipStep])

\* config.headers.get(col_idx).and_then(|h| h.format.as_ref()), resolved
CellFormat(config, col_idx) ==
    IF col_idx < Len(config.headers) /\ config.headers[col_idx + 1].format.some
    THEN Some(CreateFormatFromString(config.headers[col_idx + 1].format.v).val)
    ELSE None(NewFormat)

\* "Write data rows" of write_data: write_with_format or write at
\* ((row_idx + 1) as u32, col_idx as u16)
DataSteps(config) ==
    Tuple([r \in 1..Len(config.data) |->
       Tuple([c \in 1..Len(config.data[r]) |->
          WriteStep(AsU32(r), AsU16(c - 1), config.data[r][c],
                    CellFormat(config, c - 1))])])

\* "Write data" of write_multiple_sheets: write at the same position
DataStepsPlain(config) ==
    Tuple([r \in 1..Len(config.data) |->
       Tuple([c \in 1..Len(config.data[r]) |->
          WriteStep(AsU32(r), AsU16(c - 1), config.data[r][c], None(NewFormat))])])

\* the first data row holding a step that fails, 0 when none does
FirstFailRow(rows) ==
    IF \A r \in 1..Len(rows) : FirstFail(rows[r]) = 0 THEN 0
    ELSE CHOOSE r \in 1..Len(rows) :
           /\ FirstFail(rows[r]) # 0
           /\ \A q \in 1..(r - 1) : FirstFail(rows[q]) = 0

ExecutedRows(rows) ==
    IF FirstFailRow(rows) = 0 THEN rows
    ELSE Tuple([r \in 1..FirstFailRow(rows) |->
            IF r < FirstFailRow(rows) THEN rows[r] ELSE Executed(rows[r])])

\* One worksheet from add_worksheet to the end of its data loop, given the
\* steps of the two loops: where it stopped and what the worksheet holds.
SheetOutcome(config, headerSteps, dataSteps) ==
    IF ~ValidSheetName(config.sheet_name)
    THEN [ok |-> FALSE, err |-> "name",
          ws |-> [name |-> << >>, header |-> << >>, data |-> << >>]]
    ELSE IF FirstFail(headerSteps) # 0
    THEN [ok |-> FALSE, err |-> "limit",
          ws |-> [name   |-> config.sheet_name,
                  header |-> SelectSeq(Executed(headerSteps), IsCall),
                  data   |-> << >>]]
    ELSE [ok  |-> FirstFailRow(dataSteps) = 0,
          err |-> IF FirstFailRow(dataSteps) = 0 THEN "" ELSE "limit",
          ws  |-> [name   |-> config.sheet_name,
                   header |-> SelectSeq(headerSteps, IsCall),
                   data   |-> ExecutedRows(dataSteps)]]

\* the body of write_data before the save
WriteDataSheet(config) ==
    SheetOutcome(config, HeaderSteps(config), DataSteps(config))

\* the body of the for loop of write_multiple_sheets
WriteMultipleSheet(config) ==
    SheetOutcome(config, HeaderSteps(config), DataStepsPlain(config))

\* the lower-case form of a name, as Workbook::save compares sheet names
UpperChars == << "A", "B", "C", "D", "E", "F", "G", "H", "I", "J", "K", "L", "M",
                 "N", "O", "P", "Q", "R", "S", "T", "U", "V", "W", "X", "Y", "Z" >>
LowerChars == << "a", "b", "c", "d", "e", "f", "g", "h", "i", "j", "k", "l", "m",
                 "n", "o", "p", "q", "r", "s", "t", "u", "v", "w", "x", "y", "z" >>

LowerChar(ch) ==
    IF \E i \in 1..Len(UpperChars) : UpperChars[i] = ch
    THEN LowerChars[CHOOSE i \in 1..Len(UpperChars) : UpperChars[i] = ch]
    ELSE ch

ToLower(name) == [i \in 1..Len(name) |-> LowerChar(name[i])]

\* The file at file_path: absent, empty (created and nothing written), or a
\* saved workbook.
NoFile         == [exists |-> FALSE, valid |-> FALSE, sheets |-> << >>]
EmptyFile      == [exists |-> TRUE,  valid |-> FALSE, sheets |-> << >>]
SavedFile(shs) == [exists |-> TRUE,  valid |-> TRUE,  sheets |-> shs]

DefaultSheet ==
    [name |-> << "S", "h", "e", "e", "t", "1" >>, header |-> << >>, data |-> << >>]

\* workbook.save(&self.file_path): the file is created, then the workbook is
\* assembled (a workbook without worksheets gets one; two worksheets whose
\* names agree up to case are refused) and written into it.
Save(sheets, f) ==
    IF \E i, j \in 1..Len(sheets) :
         i < j /\ ToLower(sheets[i].name) = ToLower(sheets[j].name)
    THEN [res |-> Err("SheetnameReused"), file |-> EmptyFile]
    ELSE [res  |-> Ok(<< >>),
          file |-> SavedFile(IF sheets = << >> THEN << DefaultSheet >> ELSE sheets)]

\* the record of a finished call
CallRecord(op, configs, res, sheets, saves, before) ==
    [ op |-> op, configs |-> configs, st |-> res.st, err |-> res.err,
      sheets |-> sheets, saves |-> saves, before |-> before ]

NotCalled == CallRecord("none", << >>, NoCall, << >>, 0, NoFile)

\* write_data after the data loop, with the worksheet's outcome o: the
\* save, unless a `?` returned before it
WriteDataFrom(o, config, f) ==
    IF ~o.ok
    THEN [ file |-> f,
           call |-> CallRecord("write_data", << config >>, Err(o.err),
                               << o.ws >>, 0, f) ]
    ELSE [ file |-> Save(<< o.ws >>, f).file,
           call |-> CallRecord("write_data", << config >>,
                               Save(<< o.ws >>, f).res, << o.ws >>, 1, f) ]

\* write_data: the outcome for the file f
WriteData(config, f) == WriteDataFrom(WriteDataSheet(config), config, f)

\* the worksheets of the for loop of write_multiple_sheets: every config up
\* to the first one that fails
SheetOutcomes(configs) ==
    Tuple([i \in 1..Len(configs) |-> WriteMultipleSheet(configs[i])])

FirstFailedSheet(outcomes) ==
    IF \A i \in 1..Len(outcomes) : outcomes[i].ok THEN 0
    ELSE CHOOSE i \in 1..Len(outcomes) :
           /\ ~outcomes[i].ok
           /\ \A j \in 1..(i - 1) : outcomes[j].ok

Worksheets(outcomes) == Tuple([i \in 1..Len(outcomes) |-> outcomes[i].ws])

\* write_multiple_sheets after the for loop, with the outcomes of its
\* worksheets: the save, unless a `?` returned before it
WriteMultipleSheetsFrom(outcomes, configs, f) ==
    IF FirstFailedSheet(outcomes) # 0
    THEN [ file |-> f,
           call |-> CallRecord("write_multiple_sheets", configs,
                               Err(outcomes[FirstFailedSheet(outcomes)].err),
                               Tuple([i \in 1..FirstFailedSheet(outcomes) |->
                                        outcomes[i].ws]),
                               0, f) ]
    ELSE [ file |-> Save(Worksheets(outcomes), f).file,
           call |-> CallRecord("write_multiple_sheets", configs,
                               Save(Worksheets(outcomes), f).res,
                               Worksheets(outcomes), 1, f) ]

\* write_multiple_sheets: the outcome for the file f
WriteMultipleSheets(configs, f) ==
    WriteMultipleSheetsFrom(SheetOutcomes(configs), configs, f)

(***************************************************************************)
(* SpecWrite: one call of an ExcelWriter on a path that holds no file or   *)
(* an earlier workbook.                                                    *)
(***************************************************************************)
MaxHeaders == 3     \* headers per WriteConfig
MaxData    == 2     \* data rows per WriteConfig
MaxWidth   == 4     \* cells per data row

NamePalette ==
    << << "D", "a", "t", "a" >>,
       << "d", "a", "t", "a" >>,
       << "T", "o", "t", "a", "l", "s" >>,
       << >>,
       << "Q", "1", "/", "Q", "2" >>,
       [i \in 1..32 |-> "n"] >>

HeaderNames  == << "ID", "Name", "Age", "Joined", "Score" >>
ValuePalette == << "1", "AliceAA", "35", "", "2024-01-31", "0.5", "x" >>

FormatPalette ==
    << Some("@"), None(""), Some("#,##0"), Some("0.0%"), Some("#,##0.00"),
       Some("yyyy-MM-dd"), Some("yyyy-MM-dd HH:mm:ss") >>

HeaderOf(i, c, v) ==
    [ name   |-> HeaderNames[((c + i) % Len(HeaderNames)) + 1],
      width  |-> IF (c + v) % 2 = 0 THEN Some(10 + c) ELSE None(0),
      format |-> FormatPalette[((c - 1 + 2 * v + i - 1) % Len(FormatPalette)) + 1] ]

ValueAt(i, r, c) == ValuePalette[((2 * i + 3 * r + c) % Len(ValuePalette)) + 1]

\* the i-th WriteConfig of a call: name a, h headers of variant v, r data
\* rows whose lengths run on from l
ConfigOf(a, h, r, l, v, i) ==
    [ sheet_name |-> NamePalette[a],
      headers    |-> [c \in 1..h |-> HeaderOf(i, c, v + i - 1)],
      data       |-> [k \in 1..r |->
                        [c \in 1..((l + k - 1) % (MaxWidth + 1)) |-> ValueAt(i, k, c)]] ]

\* configs as wide as the worksheet, one column wider, and wider than u16
WideLens == {COL_MAX, COL_MAX + 1, U16 + 1}

WideName == << "W", "i", "d", "e" >>

WideHeaders(w) ==
    [ sheet_name |-> WideName,
      headers    |-> Tuple([c \in 1..w |->
                        [name |-> "h", width |-> None(0), format |-> None("")]]),
      data       |-> << << "1" >> >> ]

WideRow(w) ==
    [ sheet_name |-> WideName,
      headers    |-> << [name |-> "ID", width |-> Some(12), format |-> Some("@")] >>,
      data       |-> << << "1" >>, Tuple([c \in 1..w |-> "v"]) >> ]

WideConfigs == {WideHeaders(w) : w \in WideLens} \cup {WideRow(w) : w \in WideLens}

Variants == 0..3

WriteConfigs ==
    { ConfigOf(a, h, r, l, v, 1) :
        a \in 1..Len(NamePalette), h \in 0..MaxHeaders, r \in 0..MaxData,
        l \in 0..MaxWidth, v \in Variants }
    \cup WideConfigs

NameIdx(a, b, i) ==
    IF i = 1 THEN a ELSE IF i = 2 THEN b ELSE ((a + b + i) % Len(NamePalette)) + 1

ConfigLists ==
    { Tuple([i \in 1..n |-> ConfigOf(NameIdx(a, b, i), h, r, l, v, i)]) :
        n \in 0..MaxSheets, a \in 1..Len(NamePalette), b \in 1..Len(NamePalette),
        h \in 0..MaxHeaders, r \in 0..MaxData, l \in 0..MaxWidth, v \in Variants }
    \cup { << w >> : w \in WideConfigs }

\* what the path holds before the call
OldFile ==
    SavedFile(<< [name |-> << "O", "l", "d" >>, header |-> << >>, data |-> << >>] >>)

InitWrite ==
    /\ file \in {NoFile, OldFile}
    /\ call = NotCalled
    /\ IdleRead
    /\ IdleCodec

DoWriteData ==
    /\ call.op = "none"
    /\ \E config \in WriteConfigs :
         \E out \in {WriteData(config, file)} :
           /\ file' = out.file
           /\ call' = out.call
    /\ UNCHANGED <<readVars, codecVars>>

DoWriteMultipleSheets ==
    /\ call.op = "none"
    /\ \E configs \in ConfigLists :
         \E out \in {WriteMultipleSheets(configs, file)} :
           /\ file' = out.file
           /\ call' = out.call
    /\ UNCHANGED <<readVars, codecVars>>

NextWrite == DoWriteData \/ DoWriteMultipleSheets

SpecWrite == InitWrite /\ [][NextWrite]_vars


(***************************************************************************)
(* The writer's contracts, over the record of the finished call.           *)
(***************************************************************************)
IsWrite(step) == step.kind = "write"

\* every header and every data cell of the config has a place on a worksheet
InLimits(config) ==
    /\ Len(config.headers) <= COL_MAX
    /\ Len(config.data) < ROW_MAX
    /\ \A r \in 1..Len(config.data) : Len(config.data[r]) <= COL_MAX

\* C4: write_multiple_sheets applies to each config the per-sheet logic of
\* write_data: the i-th worksheet of the call has the name, the header
\* cells, the column widths, the data values and the per-cell formats of the
\* worksheet write_data builds from the i-th config, in input order.
C4_SameSheetLogic ==
    call.op = "write_multiple_sheets" =>
        \A i \in 1..Len(call.sheets) :
            call.sheets[i] = WriteDataSheet(call.configs[i]).ws

\* C5: a call saves at most once, and only after every sheet was written
\* without error; a call that returns an error leaves the file at the path as
\* it was before the call (an existing file keeps its content, a missing file
\* is not created).
C5_WriteAtomicity ==
    call.op # "none" =>
        /\ call.saves <= 1
        /\ call.saves = 1 => Len(call.sheets) = Len(call.configs)
        /\ call.st = "err" => file = call.before

\* the format table as the contract words it: five tokens with a fixed
\* pattern, every other string its own pattern
RecognizedTokens ==
    { << "@", "@" >>, << "#,##0", "#,##0" >>, << "#,##0.00", "#,##0.00" >>,
      << "yyyy-MM-dd", "yyyy-mm-dd" >>,
      << "yyyy-MM-dd HH:mm:ss", "yyyy-mm-dd hh:mm:ss" >> }

ExpectedPattern(format_str) ==
    IF \E p \in RecognizedTokens : p[1] = format_str
    THEN (CHOOSE p \in RecognizedTokens : p[1] = format_str)[2]
    ELSE format_str

=============================================================================
